---- MODULE Spec2Model ----
(***************************************************************************)
(* Octofit Tracker demo-data lifecycle: the populate_db command            *)
(* (handle / reset_data / create_demo_data) over a store of five record    *)
(* kinds and two many-to-many join tables.                                 *)
(*                                                                         *)
(* The management command and the standalone script hold the same logic;   *)
(* line numbers in comments are those of                                   *)
(* octofit_tracker/management/commands/populate_db.py.                     *)
(*                                                                         *)
(* Store semantics are those of the ORM the code calls:                    *)
(*  - every ORM call either takes effect as a whole or raises and changes  *)
(*    nothing;                                                             *)
(*  - transaction.atomic() restores the store when an exception leaves     *)
(*    the block;                                                           *)
(*  - QuerySet.delete() on a model also removes the rows of its            *)
(*    auto-created many-to-many through tables that point at the deleted   *)
(*    instances;                                                           *)
(*  - primary keys come from per-table sequences and are never reused.     *)
(* calories_burned is a float: it is kept as a whole number of 1/CalUnit,  *)
(* and int() truncates it.                                                 *)
(***************************************************************************)
EXTENDS Integers, Sequences, FiniteSets, TLC

VARIABLES db, seq, pc, call, force, outcome, snap, start, pstart, raised, loc, runs, prev

vars == <<db, seq, pc, call, force, outcome, snap, start, pstart, raised, loc, runs, prev>>

-----------------------------------------------------------------------------
(* Bounds of the starting stores and of the session.                       *)
MaxUsers == 2
MaxTeams == 1
MaxWorkouts == 1
MaxActivities == 2
MaxRuns == 2
CalUnit == 2

-----------------------------------------------------------------------------
(* Demo data of create_demo_data.                                          *)

demo_users ==
  << <<"alice", "alice@example.com", "Alice", "Silva">>,
     <<"bob", "bob@example.com", "Bob", "Souza">>,
     <<"carol", "carol@example.com", "Carol", "Lima">>,
     <<"dave", "dave@example.com", "Dave", "Oliveira">> >>

demo_teams == << "Team Alpha", "Team Beta" >>

demo_workouts ==
  << <<"Quick HIIT", "20-minute high intensity interval training">>,
     <<"Morning Yoga", "30-minute mobility and stretch flow">>,
     <<"Long Run", "60-minute steady state run">> >>

(* team1.members.add(users[0], users[1]); team2.members.add(users[2], users[3]) *)
demo_members == << {1, 2}, {3, 4} >>

(* w1 -> users[0], users[2]; w2 -> users[1], users[3]; w3 -> *users          *)
demo_suggested == << {1, 3}, {2, 4}, {1, 2, 3, 4} >>

(* range(3)                                                                  *)
ActivityIndexesShort == 0 .. 1
ActivityIndexes == 0 .. 2

PerUser == Cardinality(ActivityIndexes)

(* Records the tests create, used for the records a starting store holds.    *)
TestUser(i) ==
  [id |-> i, username |-> "testuser", email |-> "test@example.com",
   first_name |-> "Test", last_name |-> "User"]
TestTeam(i) == [id |-> i, name |-> "Team A"]
TestWorkout(i) == [id |-> i, name |-> "Cardio", description |-> "Cardio workout"]
TestActivity(i, u, c) ==
  [id |-> i, user |-> u, activity_type |-> "Run", duration |-> 30,
   calories_burned |-> c, date |-> 0]
TestLeaderboard(i, t) == [id |-> i, team |-> t, total_points |-> 100]

(* calories_burned of a starting Activity: 1/CalUnit-th parts, a fraction    *)
(* below one and the tests' 300.                                             *)
StartCalories == {CalUnit \div 2, 300 * CalUnit}

-----------------------------------------------------------------------------
(* The store.                                                              *)

EmptyStore ==
  [users |-> {}, teams |-> {}, workouts |-> {}, activities |-> {},
   leaderboards |-> {}, team_members |-> {}, workout_suggested_for |-> {}]

Ids(S) == {r.id : r \in S}

RECURSIVE SortedIds(_)
SortedIds(S) ==
  IF S = {} THEN << >>
  ELSE LET m == CHOOSE x \in S : \A y \in S : x <= y
       IN <<m>> \o SortedIds(S \ {m})

(* Model.objects.all() iterated: primary keys in ascending order.            *)
AllIds(S) == SortedIds(Ids(S))

(* User.objects.exists()                                                     *)
UsersExist(d) == d.users # {}

(* No row points at a record that is not there.                              *)
NoDangling(d) ==
  /\ \A a \in d.activities : a.user \in Ids(d.users)
  /\ \A l \in d.leaderboards : l.team \in Ids(d.teams)
  /\ \A m \in d.team_members : m[1] \in Ids(d.teams) /\ m[2] \in Ids(d.users)
  /\ \A m \in d.workout_suggested_for :
        m[1] \in Ids(d.workouts) /\ m[2] \in Ids(d.users)

(* Every record kind and join table of e is still in d.                      *)
Contains(d, e) ==
  /\ e.users \subseteq d.users
  /\ e.teams \subseteq d.teams
  /\ e.workouts \subseteq d.workouts
  /\ e.activities \subseteq d.activities
  /\ e.leaderboards \subseteq d.leaderboards
  /\ e.team_members \subseteq d.team_members
  /\ e.workout_suggested_for \subseteq d.workout_suggested_for

(* No record or link row of e is in d.                                       *)
Disjoint(d, e) ==
  /\ e.users \cap d.users = {}
  /\ e.teams \cap d.teams = {}
  /\ e.workouts \cap d.workouts = {}
  /\ e.activities \cap d.activities = {}
  /\ e.leaderboards \cap d.leaderboards = {}
  /\ e.team_members \cap d.team_members = {}
  /\ e.workout_suggested_for \cap d.workout_suggested_for = {}

IsEmpty(d) == d = EmptyStore

-----------------------------------------------------------------------------
(* reset_data: the ORM calls.                                              *)

(* Activity.objects.all().delete()                                           *)
DeleteActivities(d) == [d EXCEPT !.activities = {}]

(* Workout.suggested_for.through.objects.all().delete()                      *)
DeleteWorkoutLinks(d) == [d EXCEPT !.workout_suggested_for = {}]

(* w.suggested_for.clear()                                                   *)
ClearSuggestedFor(d, w) ==
  [d EXCEPT !.workout_suggested_for = {m \in @ : m[1] # w}]

(* Workout.objects.all().delete(): the workouts and their through rows.      *)
DeleteWorkouts(d) ==
  [d EXCEPT !.workouts = {},
            !.workout_suggested_for = {m \in @ : m[1] \notin Ids(d.workouts)}]

DeleteLeaderboardsSkipped(d) == d
(* Leaderboard.objects.all().delete()                                        *)
DeleteLeaderboards(d) == [d EXCEPT !.leaderboards = {}]

(* Team.members.through.objects.all().delete()                               *)
DeleteTeamLinks(d) == [d EXCEPT !.team_members = {}]

(* t.members.clear()                                                         *)
ClearMembers(d, t) == [d EXCEPT !.team_members = {m \in @ : m[1] # t}]

(* Team.objects.all().delete(): the teams and their through rows. No        *)
(* Leaderboard row is left by then (line 66 ran before line 80).             *)
DeleteTeams(d) ==
  [d EXCEPT !.teams = {},
            !.team_members = {m \in @ : m[1] \notin Ids(d.teams)}]

(* User.objects.all().delete(): the users and the through rows of both       *)
(* join tables that point at them. No Activity is left by then (line 49).    *)
DeleteUsers(d) ==
  [d EXCEPT !.users = {},
            !.team_members = {m \in @ : m[2] \notin Ids(d.users)},
            !.workout_suggested_for = {m \in @ : m[2] \notin Ids(d.users)}]

NextResetStepTeamsFirst(p) ==
  CASE p = "r_activities" -> "r_wlinks"
    [] p = "r_wlinks" -> "r_workouts"
    [] p = "r_workouts" -> "r_tlinks"
    [] p = "r_tlinks" -> "r_teams"
    [] p = "r_teams" -> "r_leaderboards"
    [] p = "r_leaderboards" -> "r_users"
    [] OTHER -> "r_done"
(* The order of the deletions inside the atomic block (lines 49-83):         *)
(* Activities, Workout links, Workouts, Leaderboards, Team links, Teams,     *)
(* Users.                                                                    *)
NextResetStep(p) ==
  CASE p = "r_activities" -> "r_wlinks"
    [] p = "r_wlinks" -> "r_workouts"
    [] p = "r_workouts" -> "r_leaderboards"
    [] p = "r_leaderboards" -> "r_tlinks"
    [] p = "r_tlinks" -> "r_teams"
    [] p = "r_teams" -> "r_users"
    [] OTHER -> "r_done"

AtomicRollbackNone(d, s) == d
(* An exception leaves `with transaction.atomic()`: the store is what it     *)
(* was when the block was entered.                                           *)
AtomicRollback(d, s) == s

-----------------------------------------------------------------------------
(* create_demo_data: the ORM calls.                                        *)

(* User.objects.create(username=..., email=..., first_name=..., last_name=...) *)
CreateUserRow(d, id, k) ==
  [d EXCEPT !.users = @ \cup
     {[id |-> id, username |-> demo_users[k][1], email |-> demo_users[k][2],
       first_name |-> demo_users[k][3], last_name |-> demo_users[k][4]]}]

(* Team.objects.create(name=...)                                             *)
CreateTeamRow(d, id, k) ==
  [d EXCEPT !.teams = @ \cup {[id |-> id, name |-> demo_teams[k]]}]

(* teamK.members.add(...)                                                    *)
AddMembers(d, t, us) ==
  [d EXCEPT !.team_members = @ \cup {<<t, u>> : u \in us}]

(* Workout.objects.create(name=..., description=...)                         *)
CreateWorkoutRow(d, id, k) ==
  [d EXCEPT !.workouts = @ \cup
     {[id |-> id, name |-> demo_workouts[k][1],
       description |-> demo_workouts[k][2]]}]

(* wK.suggested_for.add(...)                                                 *)
AddSuggested(d, w, us) ==
  [d EXCEPT !.workout_suggested_for = @ \cup {<<w, u>> : u \in us}]

(* duration = 20 + i * 10 + j * 5                                            *)
DemoDuration(i, j) == 20 + i * 10 + j * 5

(* calories = float(150 + i * 30 + j * 20)                                   *)
DemoCalories(i, j) == (150 + i * 30 + j * 20) * CalUnit

(* 'run' if j % 2 == 0 else 'bike'                                           *)
DemoType(j) == IF j % 2 = 0 THEN "run" ELSE "bike"

(* Activity.objects.create(user=u, ...); date is base_date minus             *)
(* (i * 2 + j) days, kept as the offset in days from base_date.              *)
CreateActivityRow(d, id, u, i, j) ==
  [d EXCEPT !.activities = @ \cup
     {[id |-> id, user |-> u, activity_type |-> DemoType(j),
       duration |-> DemoDuration(i, j), calories_burned |-> DemoCalories(i, j),
       date |-> 0 - (i * 2 + j)]}]

RECURSIVE SumCalories(_)
SumCalories(A) ==
  IF A = {} THEN 0
  ELSE LET a == CHOOSE x \in A : TRUE
       IN a.calories_burned + SumCalories(A \ {a})

(* int(x) of a float: truncation toward zero.                                *)
IntOf(x) == IF x >= 0 THEN x \div CalUnit ELSE 0 - ((0 - x) \div CalUnit)

(* int(Activity.objects.filter(user=m).aggregate(Sum('calories_burned')) or 0) *)
MemberPoints(d, m) ==
  LET A == {a \in d.activities : a.user = m}
  IN IF A = {} THEN 0 ELSE IntOf(SumCalories(A))

(* team.members.all(): the users joined through the members table.           *)
MembersOf(d, t) == {u \in Ids(d.users) : <<t, u>> \in d.team_members}

RECURSIVE SumPoints(_, _)
SumPoints(d, M) ==
  IF M = {} THEN 0
  ELSE LET m == CHOOSE x \in M : TRUE
       IN MemberPoints(d, m) + SumPoints(d, M \ {m})

(* total_points = 0; for m in members: total_points += int(... or 0)         *)
TotalPoints(d, t) == SumPoints(d, MembersOf(d, t))

(* Leaderboard.objects.create(team=team, total_points=total_points)          *)
CreateLeaderboardRow(d, id, t) ==
  [d EXCEPT !.leaderboards = @ \cup
     {[id |-> id, team |-> t, total_points |-> TotalPoints(d, t)]}]

(* Whether the store refuses a second Leaderboard row for a Team. The       *)
(* Leaderboard model's declaration is not among the sources; the data       *)
(* model and the persistence contract describe create as unconstrained.     *)
LeaderboardTeamUnique == FALSE

LeaderboardCreateAllowed(d, t) ==
  ~(LeaderboardTeamUnique /\ \E l \in d.leaderboards : l.team = t)

AfterCreateFailureUndone(d, p) == p
(* create_demo_data opens no transaction: after a create raised, the store   *)
(* is what the calls before it left.                                         *)
AfterCreateFailure(d, p) == d

-----------------------------------------------------------------------------
(* handle                                                                  *)

HandleBranchAlwaysReset(f, d) == "reset"
HandleBranchForcePopulates(f, d) ==
  IF f THEN "populate"
  ELSE IF UsersExist(d) THEN "skip" ELSE "populate"
HandleBranchNoSkip(f, d) == IF f THEN "reset" ELSE "populate"
(* if force: reset_data(); create_demo_data()                                *)
(* else: if User.objects.exists(): return; create_demo_data()                *)
HandleBranch(f, d) ==
  IF f THEN "reset"
  ELSE IF UsersExist(d) THEN "skip" ELSE "populate"

-----------------------------------------------------------------------------
(* What a run leaves, with primary keys and timestamps left out: the       *)
(* counts, the link rows by name, the Leaderboard totals by team name.     *)

TeamName(d, t) == (CHOOSE r \in d.teams : r.id = t).name
UserName(d, u) == (CHOOSE r \in d.users : r.id = u).username
WorkoutName(d, w) == (CHOOSE r \in d.workouts : r.id = w).name

Summary(d) ==
  [users |-> Cardinality(d.users), teams |-> Cardinality(d.teams),
   workouts |-> Cardinality(d.workouts),
   activities |-> Cardinality(d.activities),
   leaderboards |-> Cardinality(d.leaderboards),
   members |-> {<<TeamName(d, m[1]), UserName(d, m[2])>> : m \in d.team_members},
   suggested |->
     {<<WorkoutName(d, m[1]), UserName(d, m[2])>> : m \in d.workout_suggested_for},
   totals |-> {<<TeamName(d, l.team), l.total_points>> : l \in d.leaderboards}]

-----------------------------------------------------------------------------
(* Starting stores: what earlier ORM calls can have left, with no          *)
(* dangling reference.                                                     *)

StartActivities(U) ==
  UNION {[1 .. n -> U \X StartCalories] : n \in 0 .. MaxActivities}

StartStores ==
  UNION {
    {[users |-> {TestUser(i) : i \in 1 .. k},
      teams |-> {TestTeam(i) : i \in 1 .. t},
      workouts |-> {TestWorkout(i) : i \in 1 .. w},
      activities |-> {TestActivity(i, af[i][1], af[i][2]) : i \in DOMAIN af},
      leaderboards |-> {TestLeaderboard(i, i) : i \in L},
      team_members |-> M,
      workout_suggested_for |-> S]
       : M \in SUBSET ((1 .. t) \X (1 .. k)),
         S \in SUBSET ((1 .. w) \X (1 .. k)),
         L \in SUBSET (1 .. t),
         af \in StartActivities(1 .. k)}
    : k \in 0 .. MaxUsers, t \in 0 .. MaxTeams, w \in 0 .. MaxWorkouts}

NextId(S) == IF S = {} THEN 1 ELSE 1 + (CHOOSE x \in Ids(S) : \A y \in Ids(S) : y <= x)

Loc0 == [users |-> << >>, teams |-> << >>, workouts |-> << >>, n |-> 0, todo |-> << >>]

Init ==
  /\ db \in StartStores
  /\ seq = [users |-> NextId(db.users), teams |-> NextId(db.teams),
            workouts |-> NextId(db.workouts),
            activities |-> NextId(db.activities),
            leaderboards |-> NextId(db.leaderboards)]
  /\ pc = "idle"
  /\ call = "none"
  /\ force = FALSE
  /\ outcome = "none"
  /\ snap = db
  /\ start = db
  /\ pstart = db
  /\ raised = {}
  /\ loc = Loc0
  /\ runs = 0
  /\ prev = Summary(EmptyStore)

ResetPcs ==
  {"r_activities", "r_wlinks", "r_wlist", "r_wfallback", "r_workouts",
   "r_leaderboards", "r_tlinks", "r_tlist", "r_tfallback", "r_teams",
   "r_users", "r_done"}

(* The deletions whose exception nothing inside reset_data catches.          *)
ParentSteps == {"r_activities", "r_workouts", "r_leaderboards", "r_teams", "r_users"}

(* The bulk deletions of the two join tables, inside try/except.             *)
LinkSteps == {"r_wlinks", "r_tlinks"}

PopulatePcs ==
  {"p_users", "p_teams", "p_members", "p_workouts", "p_suggested",
   "p_activities", "p_teamlist", "p_leaderboards"}

-----------------------------------------------------------------------------
(* handle: the entry point.                                                *)

Enter(branch) ==
  /\ pc' = CASE branch = "reset" -> "r_activities"
             [] branch = "skip" -> "done"
             [] OTHER -> "p_users"
  /\ outcome' = IF branch = "skip" THEN "skipped" ELSE "none"
  /\ snap' = db
  /\ pstart' = db
  /\ start' = db
  /\ raised' = {}
  /\ loc' = Loc0
  /\ UNCHANGED <<db, seq>>

(* python manage.py populate_db [--force]                                    *)
Handle(f) ==
  /\ pc = "idle"
  /\ call' = "handle"
  /\ force' = f
  /\ runs' = 1
  /\ Enter(HandleBranch(f, db))
  /\ UNCHANGED prev

(* The command is run again with --force after a forced run that ended       *)
(* well.                                                                     *)
Rerun ==
  /\ pc = "done" /\ outcome = "ok" /\ call = "handle" /\ force
  /\ runs < MaxRuns
  /\ runs' = runs + 1
  /\ prev' = Summary(db)
  /\ Enter(HandleBranch(TRUE, db))
  /\ UNCHANGED <<call, force>>

(* create_demo_data() called on its own, on whatever the store holds.        *)
CallPopulate ==
  /\ pc = "idle"
  /\ call' = "populate"
  /\ force' = FALSE
  /\ runs' = 1
  /\ Enter("populate")
  /\ UNCHANGED prev

-----------------------------------------------------------------------------
(* reset_data: one action per ORM call, inside transaction.atomic().       *)

ResetGoto(d, next) ==
  /\ db' = d
  /\ pc' = next
  /\ UNCHANGED <<seq, call, force, outcome, snap, start, pstart, raised, loc, runs, prev>>

(* Lines 49, 63, 66, 80, 83.                                                 *)
ResetDeleteActivities == pc = "r_activities" /\ ResetGoto(DeleteActivities(db), NextResetStep(pc))

ResetDeleteWorkoutLinks == pc = "r_wlinks" /\ ResetGoto(DeleteWorkoutLinks(db), NextResetStep(pc))

ResetDeleteWorkouts == pc = "r_workouts" /\ ResetGoto(DeleteWorkouts(db), NextResetStep(pc))

ResetDeleteLeaderboards == pc = "r_leaderboards" /\ ResetGoto(DeleteLeaderboards(db), NextResetStep(pc))

ResetDeleteTeamLinks == pc = "r_tlinks" /\ ResetGoto(DeleteTeamLinks(db), NextResetStep(pc))

ResetDeleteTeams == pc = "r_teams" /\ ResetGoto(DeleteTeams(db), NextResetStep(pc))

ResetDeleteUsers == pc = "r_users" /\ ResetGoto(DeleteUsers(db), NextResetStep(pc))

(* The bulk deletion of a join table raises: `except Exception` takes the    *)
(* per-instance fallback.                                                    *)
ResetLinksRaise ==
  /\ pc \in LinkSteps
  /\ pc' = IF pc = "r_wlinks" THEN "r_wlist" ELSE "r_tlist"
  /\ raised' = raised \cup {pc}
  /\ UNCHANGED <<db, seq, call, force, outcome, snap, start, pstart, loc, runs, prev>>

(* for w in Workout.objects.all() / for t in Team.objects.all()              *)
ResetList ==
  /\ pc \in {"r_wlist", "r_tlist"}
  /\ LET ids == IF pc = "r_wlist" THEN AllIds(db.workouts) ELSE AllIds(db.teams)
     IN /\ loc' = [loc EXCEPT !.todo = ids]
        /\ pc' = IF pc = "r_wlist"
                 THEN (IF ids = << >> THEN NextResetStep("r_wlinks") ELSE "r_wfallback")
                 ELSE (IF ids = << >> THEN NextResetStep("r_tlinks") ELSE "r_tfallback")
  /\ UNCHANGED <<db, seq, call, force, outcome, snap, start, pstart, raised, runs, prev>>

FallbackNext ==
  /\ loc' = [loc EXCEPT !.todo = Tail(@)]
  /\ pc' = IF Len(loc.todo) > 1 THEN pc
           ELSE IF pc = "r_wfallback" THEN NextResetStep("r_wlinks")
           ELSE NextResetStep("r_tlinks")
  /\ UNCHANGED <<seq, call, force, outcome, snap, start, pstart, runs, prev>>

(* w.suggested_for.clear() / t.members.clear()                               *)
ResetClear ==
  /\ pc \in {"r_wfallback", "r_tfallback"}
  /\ db' = IF pc = "r_wfallback" THEN ClearSuggestedFor(db, Head(loc.todo))
           ELSE ClearMembers(db, Head(loc.todo))
  /\ FallbackNext
  /\ UNCHANGED raised

(* The per-instance clear raises: `except Exception: pass`.                  *)
ResetClearRaise ==
  /\ pc \in {"r_wfallback", "r_tfallback"}
  /\ raised' = raised \cup {pc}
  /\ FallbackNext
  /\ UNCHANGED db

(* A deletion outside the inner try, or the listing inside the except        *)
(* handler, raises: the exception leaves the atomic block and is raised      *)
(* again by reset_data (lines 86-88); handle does not go on.                 *)
ResetRaise ==
  /\ pc \in ParentSteps \cup {"r_wlist", "r_tlist"}
  /\ raised' = raised \cup {pc}
  /\ db' = AtomicRollback(db, snap)
  /\ pc' = "done"
  /\ outcome' = "error"
  /\ UNCHANGED <<seq, call, force, snap, start, pstart, loc, runs, prev>>

(* reset_data returned (line 85); handle calls create_demo_data (line 30).   *)
ResetReturn ==
  /\ pc = "r_done"
  /\ pc' = "p_users"
  /\ pstart' = db
  /\ loc' = Loc0
  /\ UNCHANGED <<db, seq, call, force, outcome, snap, start, raised, runs, prev>>

-----------------------------------------------------------------------------
(* create_demo_data: one action per ORM call, no transaction.              *)

PopulateStep(d, s, l, next) ==
  /\ db' = d
  /\ seq' = s
  /\ loc' = l
  /\ pc' = next
  /\ UNCHANGED <<call, force, outcome, snap, start, pstart, raised, runs, prev>>

(* for username, email, first, last in demo_users: u = User.objects.create(...) *)
CreateUser ==
  /\ pc = "p_users"
  /\ LET k == Len(loc.users) + 1
     IN PopulateStep(CreateUserRow(db, seq.users, k),
                     [seq EXCEPT !.users = @ + 1],
                     [loc EXCEPT !.users = Append(@, seq.users)],
                     IF k = Len(demo_users) THEN "p_teams" ELSE "p_users")

(* team1 = Team.objects.create(name='Team Alpha'); team2 = ...               *)
CreateTeam ==
  /\ pc = "p_teams"
  /\ LET k == Len(loc.teams) + 1
     IN PopulateStep(CreateTeamRow(db, seq.teams, k),
                     [seq EXCEPT !.teams = @ + 1],
                     [loc EXCEPT !.teams = Append(@, seq.teams)],
                     IF k = Len(demo_teams) THEN "p_members" ELSE "p_teams")

(* team1.members.add(users[0], users[1]); team2.members.add(users[2], users[3]) *)
AddTeamMembers ==
  /\ pc = "p_members"
  /\ LET k == loc.n + 1
     IN PopulateStep(AddMembers(db, loc.teams[k], {loc.users[i] : i \in demo_members[k]}),
                     seq,
                     [loc EXCEPT !.n = IF k = Len(demo_members) THEN 0 ELSE k],
                     IF k = Len(demo_members) THEN "p_workouts" ELSE "p_members")

(* w1 = Workout.objects.create(...); w2 = ...; w3 = ...                      *)
CreateWorkout ==
  /\ pc = "p_workouts"
  /\ LET k == Len(loc.workouts) + 1
     IN PopulateStep(CreateWorkoutRow(db, seq.workouts, k),
                     [seq EXCEPT !.workouts = @ + 1],
                     [loc EXCEPT !.workouts = Append(@, seq.workouts)],
                     IF k = Len(demo_workouts) THEN "p_suggested" ELSE "p_workouts")

(* w1.suggested_for.add(users[0], users[2]); w2...; w3.suggested_for.add(all four)  *)
AddWorkoutSuggested ==
  /\ pc = "p_suggested"
  /\ LET k == loc.n + 1
     IN PopulateStep(AddSuggested(db, loc.workouts[k],
                                  {loc.users[i] : i \in demo_suggested[k]}),
                     seq,
                     [loc EXCEPT !.n = IF k = Len(demo_suggested) THEN 0 ELSE k],
                     IF k = Len(demo_suggested) THEN "p_activities" ELSE "p_suggested")

(* for i, u in enumerate(users): for j in range(3): Activity.objects.create(...) *)
CreateActivity ==
  /\ pc = "p_activities"
  /\ LET i == loc.n \div PerUser
         j == loc.n % PerUser
         last == loc.n + 1 = Len(loc.users) * PerUser
     IN PopulateStep(CreateActivityRow(db, seq.activities, loc.users[i + 1], i, j),
                     [seq EXCEPT !.activities = @ + 1],
                     [loc EXCEPT !.n = IF last THEN 0 ELSE @ + 1],
                     IF last THEN "p_teamlist" ELSE "p_activities")

(* for team in Team.objects.all()                                            *)
ListTeams ==
  /\ pc = "p_teamlist"
  /\ PopulateStep(db, seq, [loc EXCEPT !.todo = AllIds(db.teams)],
                  IF db.teams = {} THEN "p_finish" ELSE "p_leaderboards")

(* members = team.members.all(); total_points = ...;                         *)
(* Leaderboard.objects.create(team=team, total_points=total_points)          *)
CreateLeaderboard ==
  /\ pc = "p_leaderboards"
  /\ LeaderboardCreateAllowed(db, Head(loc.todo))
  /\ PopulateStep(CreateLeaderboardRow(db, seq.leaderboards, Head(loc.todo)),
                  [seq EXCEPT !.leaderboards = @ + 1],
                  [loc EXCEPT !.todo = Tail(@)],
                  IF Len(loc.todo) > 1 THEN "p_leaderboards" ELSE "p_finish")

(* create_demo_data returned (line 159), and handle with it.                 *)
PopulateReturn ==
  /\ pc = "p_finish"
  /\ pc' = "done"
  /\ outcome' = "ok"
  /\ UNCHANGED <<db, seq, call, force, snap, start, pstart, raised, loc, runs, prev>>

(* An ORM call of create_demo_data raises: nothing catches it.               *)
PopulateRaise ==
  /\ pc \in PopulatePcs
  /\ raised' = raised \cup {pc}
  /\ db' = AfterCreateFailure(db, pstart)
  /\ pc' = "done"
  /\ outcome' = "error"
  /\ UNCHANGED <<seq, call, force, snap, start, pstart, loc, runs, prev>>

-----------------------------------------------------------------------------

Next ==
  \/ \E f \in BOOLEAN : Handle(f)
  \/ Rerun
  \/ CallPopulate
  \/ ResetDeleteActivities
  \/ ResetDeleteWorkoutLinks
  \/ ResetDeleteWorkouts
  \/ ResetDeleteLeaderboards
  \/ ResetDeleteTeamLinks
  \/ ResetDeleteTeams
  \/ ResetDeleteUsers
  \/ ResetLinksRaise
  \/ ResetList
  \/ ResetClear
  \/ ResetClearRaise
  \/ ResetRaise
  \/ ResetReturn
  \/ CreateUser
  \/ CreateTeam
  \/ AddTeamMembers
  \/ CreateWorkout
  \/ AddWorkoutSuggested
  \/ CreateActivity
  \/ ListTeams
  \/ CreateLeaderboard
  \/ PopulateReturn
  \/ PopulateRaise

Spec == Init /\ [][Next]_vars

-----------------------------------------------------------------------------
(* Points of a run.                                                        *)

(* reset_data returned without an exception.                                 *)
ResetReturned == pc = "r_done"

(* reset_data ended with an exception raised to its caller.                  *)
ResetFailed == pc = "done" /\ outcome = "error" /\ raised \cap PopulatePcs = {}

(* create_demo_data ended with an exception raised to its caller.            *)
PopulateFailed == pc = "done" /\ outcome = "error" /\ raised \cap PopulatePcs # {}

(* The steps of reset_data whose exception nothing inside it catches.        *)
Uncaught == ParentSteps \cup {"r_wlist", "r_tlist"}

OnePerTeam(d) ==
  \A t \in Ids(d.teams) : Cardinality({l \in d.leaderboards : l.team = t}) <= 1

(* The calories of every Activity owned by a current member of team t.       *)
TeamCalories(d, t) == SumCalories({a \in d.activities : a.user \in MembersOf(d, t)})

-----------------------------------------------------------------------------
(* C1 (as stated): whichever of the seven deletion steps of reset() fails   *)
(* (Activities, Workout links, Workouts, Leaderboards, Team links, Teams,   *)
(* Accounts), the call ends with an error and the store is what it was      *)
(* before the call. Stated for the starting stores that hold a record.      *)
C1_AnyStepFailureRollsBack ==
  ((ResetReturned \/ ResetFailed) /\ ~IsEmpty(start)
     /\ raised \cap (ParentSteps \cup LinkSteps) # {})
    => (outcome = "error" /\ db = snap)

(* C1 (amended): a failure of the deletion of Activities, Workouts,         *)
(* Leaderboard entries, Teams or Accounts (or of the listing the fallback   *)
(* iterates) ends reset() with an error and the store exactly as before     *)
(* the call; every reset() that ends with an error leaves the store as      *)
(* before the call; a reset() that returns had no such failure.             *)
C1_UncaughtFailureRollsBack ==
  /\ raised \cap Uncaught # {} => (pc = "done" /\ outcome = "error" /\ db = snap /\ db = start)
  /\ ResetFailed => (db = snap /\ db = start)
  /\ ResetReturned => raised \cap Uncaught = {}

C1_Witness ==
  /\ ResetFailed
  /\ "r_users" \in raised
  /\ "r_wlinks" \in raised
  /\ start.activities # {} /\ start.team_members # {} /\ start.leaderboards # {}
  /\ db = start

(* C2 (as stated): when no Account exists at the start of a run of the      *)
(* entry point, reset() is never called, force flag or not, and no record   *)
(* or link row the store held is deleted.                                   *)
C2_NoAccountsNeverResets ==
  (call = "handle" /\ start.users = {}) => (pc \notin ResetPcs /\ Contains(db, start))

(* C2 (amended): when no Account exists at the start of a run and the       *)
(* force flag is not set, the entry point calls populate() directly, never  *)
(* reset(), and nothing the store held is deleted; with the force flag set  *)
(* reset() runs first all the same, so populate() starts on an emptied      *)
(* store and nothing the store held is left.                                *)
C2_NoAccountsNoForcePopulates ==
  /\ (call = "handle" /\ ~force /\ start.users = {})
       => /\ pc \in PopulatePcs \cup {"p_finish", "done"}
          /\ outcome # "skipped"
          /\ Contains(db, start)
  /\ (call = "handle" /\ force /\ start.users = {} /\ pc \in PopulatePcs \cup {"p_finish"})
       => (IsEmpty(pstart) /\ Disjoint(db, start))

C2_Witness ==
  /\ call = "handle" /\ ~force /\ start.users = {}
  /\ start.teams # {} /\ start.leaderboards # {} /\ start.workouts # {}
  /\ pc = "done" /\ outcome = "ok"

(* C3: with at least one Account and no force flag, a run of the entry      *)
(* point calls neither reset() nor populate(): it ends successfully and     *)
(* the store is unchanged.                                                  *)
C3_SkipLeavesStore ==
  (call = "handle" /\ ~force /\ start.users # {})
    => (pc = "done" /\ outcome = "skipped" /\ db = start /\ raised = {})

C3_Witness ==
  /\ call = "handle" /\ ~force /\ pc = "done" /\ outcome = "skipped"
  /\ start.users # {} /\ start.activities # {} /\ start.team_members # {}

(* C4: after every reset() that returns, no Account, Team, Workout,         *)
(* Activity, Leaderboard entry or link row is left, also when a bulk        *)
(* deletion of a join table raised and per-record clears raised too.        *)
C4_ResetEmpties == ResetReturned => IsEmpty(db)

C4_Witness ==
  /\ ResetReturned
  /\ {"r_wlinks", "r_wfallback", "r_tlinks", "r_tfallback"} \subseteq raised
  /\ start.workout_suggested_for # {} /\ start.team_members # {}
  /\ start.activities # {} /\ start.leaderboards # {}
  /\ IsEmpty(db)

(* C5: populate() on an empty store with no failing step leaves 4           *)
(* Accounts, 2 Teams, 3 Workouts, 12 Activities and 2 Leaderboard entries,  *)
(* 3 Activities for each Account.                                           *)
C5_DemoCounts ==
  (pc = "done" /\ outcome = "ok" /\ IsEmpty(pstart))
    => /\ Cardinality(db.users) = 4
       /\ Cardinality(db.teams) = 2
       /\ Cardinality(db.workouts) = 3
       /\ Cardinality(db.activities) = 12
       /\ Cardinality(db.leaderboards) = 2
       /\ \A u \in db.users :
            Cardinality({a \in db.activities : a.user = u.id}) = 3

C5_Witness ==
  /\ pc = "done" /\ outcome = "ok" /\ IsEmpty(pstart)
  /\ call = "populate"
  /\ Cardinality(db.activities) = 12

(* C6: every Leaderboard entry a populate() call creates, whatever the      *)
(* store held before, has total_points equal to the truncation of the sum   *)
(* of calories_burned over all Activities of the current members of its     *)
(* Team (0 with no member or no Activity); from an empty store the totals   *)
(* are 1110 for the first Team and 1470 for the second.                     *)
C6_TotalIsTruncatedSum ==
  /\ \A l \in db.leaderboards \ pstart.leaderboards :
       l.total_points = IntOf(TeamCalories(db, l.team))
  /\ (pc = "done" /\ outcome = "ok" /\ IsEmpty(pstart))
       => {<<TeamName(db, l.team), l.total_points>> : l \in db.leaderboards}
            = {<<"Team Alpha", 1110>>, <<"Team Beta", 1470>>}

(* C7: a forced run repeated after a forced run ends with the same counts   *)
(* of the five record kinds, the same link rows and the same Leaderboard    *)
(* totals as the first.                                                     *)
C7_ForcedRunIdempotent ==
  (call = "handle" /\ force /\ runs >= 2 /\ pc = "done" /\ outcome = "ok")
    => Summary(db) = prev

C7_Witness ==
  /\ call = "handle" /\ force /\ runs >= 2 /\ pc = "done" /\ outcome = "ok"
  /\ prev.users = 4 /\ prev.activities = 12
  /\ "r_tfallback" \in raised

(* C8: at every point of reset(), on the bulk path and on the fallback      *)
(* path, a store that had no dangling reference at the start has none:      *)
(* every Activity has its Account, every Leaderboard entry its Team, every  *)
(* link row both its endpoints.                                             *)
C8_NoDanglingDuringReset ==
  (pc \in ResetPcs /\ NoDangling(snap)) => NoDangling(db)

C8_Witness ==
  /\ pc = "r_users"
  /\ {"r_wlinks", "r_wfallback", "r_tlinks", "r_tfallback"} \subseteq raised
  /\ snap.team_members # {} /\ snap.workout_suggested_for # {}
  /\ snap.activities # {} /\ snap.leaderboards # {}
  /\ db.users # {}

C10_PopulateNotAtomic ==
  [][ /\ pc \in PopulatePcs => Contains(db', db)
      /\ (pc \in PopulatePcs /\ outcome' = "error")
           => /\ pc' = "done"
              /\ db' = db
              /\ Contains(db', pstart)
              /\ (call = "handle" /\ force) => (IsEmpty(pstart) /\ Disjoint(db', start))
      /\ outcome = "error" => (db' = db /\ pc' = pc)
    ]_vars

C10_Witness ==
  /\ PopulateFailed
  /\ "p_leaderboards" \in raised
  /\ call = "handle" /\ force
  /\ start.users # {} /\ start.activities # {}
  /\ Cardinality(db.activities) = 12 /\ Cardinality(db.leaderboards) = 1

====
